---- MODULE Spec2Model ----
(***************************************************************************)
(* Model of dt-elysia-nest: the WebSocket manager (an insertion-ordered    *)
(* Map of connection id -> channel with add/remove/get/send/broadcast),    *)
(* the ws-based server and the Elysia server that drive it, and the        *)
(* message handlers.  JavaScript runs every handler to completion, so each *)
(* action below is one whole call or one whole event handler.              *)
(***************************************************************************)
EXTENDS Naturals, Sequences, FiniteSets, TLC

(* ---------------------------------------------------------------------- *)
(* Values                                                                  *)
(* ---------------------------------------------------------------------- *)

\* Channel objects (one per client connection).
Conn == {"A", "B", "C"}

\* Connection ids (sec-websocket-key values in the ws-based server).
Ids == {"k1", "k2"}

\* A property an object does not have / a property whose value is undefined.
Absent == "<absent>"
Undefined == "<undefined>"

\* The data part of a message object; NoData: the object has no data property.
NoData == [action |-> Absent, payload |-> Absent]

\* Opaque payloads, given by their JSON text.
PayloadAnn == "{\"name\":\"Ann\"}"
Payloads == {PayloadAnn, Undefined}

\* The info envelope of the Elysia open handler.
InfoMsg ==
    [type |-> "info", id |-> Absent, message |-> "Connection established",
     data |-> NoData]

\* The envelope a handler broadcasts: {type, id, data: {action, payload}}.
ResultMsg(type, id, payload) ==
    [type |-> type, id |-> id, message |-> Absent,
     data |-> [action |-> type \o "_updated", payload |-> payload]]

\* No message (operations that take none).
NoMsg == [type |-> Absent, id |-> Absent, message |-> Absent, data |-> NoData]

\* Messages a caller of the manager passes to sendToConnection / broadcast.
Msgs == {InfoMsg, ResultMsg("user", "42", PayloadAnn)}

Quote(s) == "\"" \o s \o "\""

\* One property of JSON.stringify's output: omitted when absent or undefined.
Prop(name, text, first) ==
    IF text \in {Absent, Undefined} THEN ""
    ELSE (IF first THEN "" ELSE ",") \o Quote(name) \o ":" \o text

QuoteOpt(s) == IF s \in {Absent, Undefined} THEN s ELSE Quote(s)

\* JSON.stringify of a message object (properties in insertion order).
Stringify(m) ==
    LET d == IF m.data = NoData THEN Absent
             ELSE "{" \o Prop("action", QuoteOpt(m.data.action), TRUE)
                      \o Prop("payload", m.data.payload,
                              m.data.action \in {Absent, Undefined})
                      \o "}"
    IN "{" \o Prop("type", QuoteOpt(m.type), TRUE)
           \o Prop("id", QuoteOpt(m.id), m.type \in {Absent, Undefined})
           \o Prop("message", QuoteOpt(m.message),
                   m.type \in {Absent, Undefined} /\ m.id \in {Absent, Undefined})
           \o Prop("data", d,
                   /\ m.type \in {Absent, Undefined}
                   /\ m.id \in {Absent, Undefined}
                   /\ m.message \in {Absent, Undefined})
           \o "}"

(* ---------------------------------------------------------------------- *)
(* The Map behind `connections`                                            *)
(* ---------------------------------------------------------------------- *)

\* Position of key id in the entry list m, 0 when absent.
MapIndex(m, id) ==
    IF \E i \in 1..Len(m) : m[i].id = id
    THEN CHOOSE i \in 1..Len(m) : m[i].id = id
    ELSE 0

MapHas(m, id) == MapIndex(m, id) # 0

\* A get that answers with the oldest entry's value whatever the key.
MapGetOldest(m, id) == IF Len(m) > 0 THEN m[1].ws ELSE Undefined

\* Map.prototype.get: the value, or undefined.
MapGet(m, id) == IF MapHas(m, id) THEN m[MapIndex(m, id)].ws ELSE Undefined

\* A buggy set that keeps the first value of an existing key.
MapSetKeepFirst(m, id, ws) ==
    IF MapHas(m, id) THEN m ELSE Append(m, [id |-> id, ws |-> ws])

\* Map.prototype.set: overwrite in place, or append a new entry.
MapSet(m, id, ws) ==
    IF MapHas(m, id)
    THEN [m EXCEPT ![MapIndex(m, id)] = [id |-> id, ws |-> ws]]
    ELSE Append(m, [id |-> id, ws |-> ws])

\* The entry list without position p.
DropAt(m, p) == [i \in 1..(Len(m) - 1) |-> IF i < p THEN m[i] ELSE m[i + 1]]

\* A buggy delete that removes the oldest entry whatever the key.
MapDeleteOldest(m, id) == IF Len(m) > 0 THEN DropAt(m, 1) ELSE m

\* Map.prototype.delete: remove the entry of id if there is one.
MapDelete(m, id) == IF MapHas(m, id) THEN DropAt(m, MapIndex(m, id)) ELSE m

\* The channels held by the map.
MapValues(m) == {m[i].ws : i \in 1..Len(m)}

(* ---------------------------------------------------------------------- *)
(* State                                                                   *)
(* ---------------------------------------------------------------------- *)

VARIABLES
    connections,  \* the manager's Map: entry list of [id, ws], insertion order
    failing,      \* channels whose send() throws (socket no longer open)
    state,        \* per connection: "CONNECTING", "OPEN" or "CLOSED"
    key,          \* per connection: the id it was registered under, or "none"
    op,           \* the last call or event, with its inputs
    before,       \* the Map as it was when the last call or event began
    writes,       \* the ws.send calls of the last call or event, in order
    ret,          \* what the last manager call returned
    threw,        \* whether the last call or event ended by an exception
    logged,       \* the console output of the last call or event
    calls,        \* handler, service and broadcast calls of the last event
    store,        \* the organisations collection: a set of documents
    issued,       \* the _id values the collection has handed out so far
    req,          \* the last HTTP request, with the collection as it found it
    resp,         \* the response to it
    db,           \* mongoose connection: "none", "connecting", "connected",
                  \* "failed"
    connects,     \* how many times mongoose.connect has been called
    listening,    \* whether app.listen(3000) has been called
    cron          \* the heartbeat job: whether a run is under way, the steps
                  \* the current (or last) run has done, whether it failed

vars == <<connections, failing, state, key, op, before, writes, ret, threw,
          logged, calls, store, issued, req, resp, db, connects, listening,
          cron>>

\* Object ids the collection can hand out, and a string that is not one.
ObjIds == {"o1", "o2"}
BadId == "not-an-object-id"

\* Organisation names (the other fields of newOrg are carried alike).
Names == {"acme", "globex"}

\* A document of the collection.
Doc(id, name) == [_id |-> id, name |-> name]

\* Response bodies: an object {message, data?}, a plain string, one document,
\* the list of documents, and the framework's own error replies.
Body(kind, message, docs, result) ==
    [kind |-> kind, message |-> message, docs |-> docs, result |-> result]
NoBody == Body("none", Absent, {}, <<>>)

Request(route, id, name, fault) ==
    [route |-> route, id |-> id, name |-> name, fault |-> fault]
NoReq == [r |-> Request("none", Absent, Absent, FALSE), store |-> {}]

Response(status, body) == [status |-> status, body |-> body]
NoResp == Response(0, NoBody)

\* The heartbeat job before its first run.
CronNotRun == [running |-> FALSE, steps |-> <<>>, failed |-> FALSE]

\* An inbound envelope that is absent (calls and events that carry none).
NoEnv == [type |-> Absent, id |-> Absent, data |-> NoData]

\* A send hook: what channel `on` does to the registry from inside send()
\* (it deregisters an id, registers itself under an id, or both).
HookOp(f, id, ws) == [f |-> f, id |-> id, ws |-> ws]
NoHook == [on |-> "none", ops |-> <<>>]
HookOps(c) ==
    {<<HookOp("remove", id, "none")>> : id \in Ids}
    \cup {<<HookOp("add", id, c)>> : id \in Ids}
    \cup {<<HookOp("remove", id, "none"), HookOp("add", id, c)>> : id \in Ids}
Hooks == UNION {{[on |-> c, ops |-> o] : o \in HookOps(c)} : c \in Conn}

\* How many times a hook may run during one broadcast.
MaxReentrant == 1

OpRec(name, conn, id, ws, msg, env, hook) ==
    [name |-> name, conn |-> conn, id |-> id, ws |-> ws, msg |-> msg,
     env |-> env, hook |-> hook]

NoOp == OpRec("none", "none", "none", "none", NoMsg, NoEnv, NoHook)

\* One ws.send(data) call and whether it returned (ok) or threw.
Write(ws, data, ok) == [ws |-> ws, data |-> data, ok |-> ok]

Init ==
    /\ connections = <<>>
    /\ failing = {}
    /\ state = [c \in Conn |-> "CONNECTING"]
    /\ key = [c \in Conn |-> "none"]
    /\ op = NoOp
    /\ before = <<>>
    /\ writes = <<>>
    /\ ret = Undefined
    /\ threw = FALSE
    /\ logged = <<>>
    /\ calls = <<>>
    /\ store = {}
    /\ issued = {}
    /\ req = NoReq
    /\ resp = NoResp
    /\ db = "none"
    /\ connects = 0
    /\ listening = FALSE
    /\ cron = CronNotRun

(* ---------------------------------------------------------------------- *)
(* websocket-manager: addConnection, removeConnection, getConnection,      *)
(* sendToConnection, broadcast                                             *)
(* ---------------------------------------------------------------------- *)

\* connections.set(id, ws)
addConnection(id, ws) == connections' = MapSet(connections, id, ws)

\* A removeConnection that empties the registry.
removeConnectionClears(id) == connections' = <<>>

\* connections.delete(id)
removeConnection(id) == connections' = MapDelete(connections, id)

\* connections.get(id)
getConnection(id) == MapGet(connections, id)

\* A send that addresses the text to its recipient.
SendAddressed(ws, data) == Write(ws, data \o "@" \o ws, ws \notin failing)

\* ws.send(data) on channel ws: returns, or throws when the channel fails.
Send(ws, data) == Write(ws, data, ws \notin failing)

\* A sendToConnection that falls back to the oldest registered channel when
\* the id is unknown.
SendToEffectFallback(id, message) ==
    LET ws == IF MapHas(connections, id) \/ Len(connections) = 0
              THEN getConnection(id)
              ELSE connections[1].ws
    IN IF ws # Undefined
       THEN [writes |-> <<Send(ws, Stringify(message))>>,
             threw |-> ws \in failing,
             logged |-> <<>>,
             ret |-> Undefined]
       ELSE [writes |-> <<>>,
             threw |-> FALSE,
             logged |-> <<"No connection found for id: " \o id>>,
             ret |-> Undefined]

\* The effect of sendToConnection(id, message): its sends, whether it threw,
\* what it logged and what it returned (nothing, on either branch).
SendToEffect(id, message) ==
    LET ws == getConnection(id)
    IN IF ws # Undefined
       THEN [writes |-> <<Send(ws, Stringify(message))>>,
             threw |-> ws \in failing,
             logged |-> <<>>,
             ret |-> Undefined]
       ELSE [writes |-> <<>>,
             threw |-> FALSE,
             logged |-> <<"No connection found for id: " \o id>>,
             ret |-> Undefined]

\* A hook's registry calls applied to the Map while forEach is at entry i:
\* a deleted entry at or before i moves the cursor back with the list.
RECURSIVE ApplyHook(_, _, _)
ApplyHook(m, i, ops) ==
    IF ops = <<>> THEN [m |-> m, i |-> i]
    ELSE LET o == Head(ops)
             p == MapIndex(m, o.id)
         IN IF o.f = "add"
            THEN ApplyHook(MapSet(m, o.id, o.ws), i, Tail(ops))
            ELSE ApplyHook(MapDelete(m, o.id),
                           IF p # 0 /\ p <= i THEN i - 1 ELSE i,
                           Tail(ops))

\* connections.forEach(ws => ws.send(JSON.stringify(message))) from entry i:
\* a live iteration over the entry list, ended by the first send that throws.
RECURSIVE ForEach(_, _, _, _, _, _)
ForEach(m, i, message, acc, hook, budget) ==
    IF i > Len(m) THEN [m |-> m, writes |-> acc, threw |-> FALSE]
    ELSE LET w == Send(m[i].ws, Stringify(message))
         IN IF ~w.ok
            THEN [m |-> m, writes |-> Append(acc, w), threw |-> TRUE]
            ELSE IF hook.on = m[i].ws /\ budget > 0
                 THEN LET h == ApplyHook(m, i, hook.ops)
                      IN ForEach(h.m, h.i + 1, message, Append(acc, w), hook,
                                 budget - 1)
                 ELSE ForEach(m, i + 1, message, Append(acc, w), hook, budget)

\* A broadcast that drops the entries whose channel no longer accepts writes.
BroadcastEffectPruning(message, hook) ==
    LET e == ForEach(connections, 1, message, <<>>, hook, MaxReentrant)
    IN [m |-> SelectSeq(e.m, LAMBDA x : x.ws \notin failing),
        writes |-> e.writes, threw |-> e.threw]

\* The effect of broadcast(message) on the current Map.
BroadcastEffect(message, hook) ==
    ForEach(connections, 1, message, <<>>, hook, MaxReentrant)

(* ---------------------------------------------------------------------- *)
(* The manager called directly (any caller, any channel object)            *)
(* ---------------------------------------------------------------------- *)

httpIdle ==
    UNCHANGED <<store, issued, req, resp, db, connects, listening, cron>>

serverIdle == UNCHANGED <<state, key, calls>> /\ httpIdle

\* An addConnection that tells the channel it replaces.
CallAddNotifiesPrevious(id, ws) ==
    /\ addConnection(id, ws)
    /\ op' = OpRec("addConnection", "none", id, ws, NoMsg, NoEnv, NoHook)
    /\ before' = connections
    /\ writes' = IF MapHas(connections, id) /\ MapGet(connections, id) # ws
                 THEN <<Send(MapGet(connections, id), "replaced")>>
                 ELSE <<>>
    /\ ret' = Undefined /\ threw' = FALSE /\ logged' = <<>>
    /\ UNCHANGED failing /\ serverIdle

CallAdd(id, ws) ==
    /\ addConnection(id, ws)
    /\ op' = OpRec("addConnection", "none", id, ws, NoMsg, NoEnv, NoHook)
    /\ before' = connections
    /\ writes' = <<>> /\ ret' = Undefined /\ threw' = FALSE /\ logged' = <<>>
    /\ UNCHANGED failing /\ serverIdle

CallRemove(id) ==
    /\ removeConnection(id)
    /\ op' = OpRec("removeConnection", "none", id, "none", NoMsg, NoEnv, NoHook)
    /\ before' = connections
    /\ writes' = <<>> /\ ret' = Undefined /\ threw' = FALSE /\ logged' = <<>>
    /\ UNCHANGED failing /\ serverIdle

CallGet(id) ==
    /\ ret' = getConnection(id)
    /\ op' = OpRec("getConnection", "none", id, "none", NoMsg, NoEnv, NoHook)
    /\ before' = connections
    /\ writes' = <<>> /\ threw' = FALSE /\ logged' = <<>>
    /\ UNCHANGED <<connections, failing>> /\ serverIdle

CallSendTo(id, message) ==
    LET e == SendToEffect(id, message)
    IN /\ writes' = e.writes /\ threw' = e.threw /\ logged' = e.logged
       /\ ret' = e.ret
       /\ op' = OpRec("sendToConnection", "none", id, "none", message, NoEnv,
                      NoHook)
       /\ before' = connections
       /\ UNCHANGED <<connections, failing>> /\ serverIdle

CallBroadcast(message, hook) ==
    LET e == BroadcastEffect(message, hook)
    IN /\ connections' = e.m
       /\ writes' = e.writes /\ threw' = e.threw
       /\ ret' = Undefined /\ logged' = <<>>
       /\ op' = OpRec("broadcast", "none", "none", "none", message, NoEnv, hook)
       /\ before' = connections
       /\ UNCHANGED failing /\ serverIdle

\* A channel's socket stops or resumes accepting writes.
ChannelFlips(c) ==
    /\ failing' = IF c \in failing THEN failing \ {c} ELSE failing \cup {c}
    /\ UNCHANGED <<connections, op, before, writes, ret, threw, logged>>
    /\ serverIdle

\* The hooks of the channels now registered (no other channel is sent to).
RegisteredHooks == {h \in Hooks : h.on \in MapValues(connections)}

NextMgr ==
    \/ \E id \in Ids, ws \in Conn : CallAdd(id, ws)
    \/ \E id \in Ids : CallRemove(id)
    \/ \E id \in Ids : CallGet(id)
    \/ \E id \in Ids, m \in Msgs : CallSendTo(id, m)
    \/ \E m \in Msgs, h \in RegisteredHooks \cup {NoHook} : CallBroadcast(m, h)
    \/ \E c \in Conn : ChannelFlips(c)

SpecMgr == Init /\ [][NextMgr]_vars

(* ---------------------------------------------------------------------- *)
(* The ws-based server: wss.on('connection'), ws.on('message'),            *)
(* ws.on('close')                                                          *)
(* ---------------------------------------------------------------------- *)

\* The client's greeting, and the same object sent with other spacing.
GreetingMsg ==
    [type |-> "greeting", id |-> Absent, message |-> "Hello Server!",
     data |-> NoData]
SpacedGreeting == "{ \"type\": \"greeting\", \"message\": \"Hello Server!\" }"

\* Frames a client sends: two JSON texts of the greeting and one that is no JSON.
RawTexts == {Stringify(GreetingMsg), SpacedGreeting, "Hello Server!"}

\* JSON.parse(message): the value, or a SyntaxError.
JsonParse(raw) ==
    IF raw \in {Stringify(GreetingMsg), SpacedGreeting}
    THEN [ok |-> TRUE, value |-> GreetingMsg]
    ELSE [ok |-> FALSE, value |-> NoMsg]

handlersIdle == UNCHANGED calls /\ httpIdle

\* wss.on('connection'): id = the request's sec-websocket-key; addConnection.
WsConnection(c, k) ==
    /\ state[c] = "CONNECTING"
    /\ state' = [state EXCEPT ![c] = "OPEN"]
    /\ key' = [key EXCEPT ![c] = k]
    /\ addConnection(k, c)
    /\ op' = OpRec("connection", c, k, c, NoMsg, NoEnv, NoHook)
    /\ before' = connections
    /\ writes' = <<>> /\ ret' = Undefined /\ threw' = FALSE /\ logged' = <<>>
    /\ UNCHANGED failing /\ handlersIdle

\* ws.on('message'): parse, log, broadcast the parsed value to all.
WsMessage(c, raw) ==
    LET p == JsonParse(raw)
        e == BroadcastEffect(p.value, NoHook)
    IN /\ state[c] = "OPEN"
       /\ op' = OpRec("message", c, key[c], c, p.value, NoEnv, NoHook)
       /\ before' = connections
       /\ ret' = Undefined
       /\ IF p.ok
          THEN /\ logged' = <<"Received message: [object Object]">>
               /\ connections' = e.m
               /\ writes' = e.writes
               /\ threw' = e.threw
          ELSE /\ logged' = <<>>
               /\ writes' = <<>>
               /\ threw' = TRUE
               /\ UNCHANGED connections
       /\ UNCHANGED <<failing, state, key>> /\ handlersIdle

\* ws.on('close'): removeConnection(id), with the id of the closure.
WsClose(c) ==
    /\ state[c] = "OPEN"
    /\ state' = [state EXCEPT ![c] = "CLOSED"]
    /\ removeConnection(key[c])
    /\ op' = OpRec("close", c, key[c], c, NoMsg, NoEnv, NoHook)
    /\ before' = connections
    /\ writes' = <<>> /\ ret' = Undefined /\ threw' = FALSE /\ logged' = <<>>
    /\ UNCHANGED <<failing, key>> /\ handlersIdle

\* The close listener run again for a connection that is already closed.
WsDuplicateClose(c) ==
    /\ state[c] = "CLOSED"
    /\ removeConnection(key[c])
    /\ op' = OpRec("close-again", c, key[c], c, NoMsg, NoEnv, NoHook)
    /\ before' = connections
    /\ writes' = <<>> /\ ret' = Undefined /\ threw' = FALSE /\ logged' = <<>>
    /\ UNCHANGED <<failing, state, key>> /\ handlersIdle

\* An open connection's socket starts closing: its send() throws from now on,
\* and its close event has not been emitted yet.
WsSocketClosing(c) ==
    /\ state[c] = "OPEN"
    /\ c \notin failing
    /\ failing' = failing \cup {c}
    /\ UNCHANGED <<connections, state, key, op, before, writes, ret, threw,
                   logged, calls>>
    /\ httpIdle

NextWs ==
    \/ \E c \in Conn, k \in Ids : WsConnection(c, k)
    \/ \E c \in Conn, raw \in RawTexts : WsMessage(c, raw)
    \/ \E c \in Conn : WsClose(c)
    \/ \E c \in Conn : WsDuplicateClose(c)
    \/ \E c \in Conn : WsSocketClosing(c)

SpecWs == Init /\ [][NextWs]_vars

(* ---------------------------------------------------------------------- *)
(* The message handlers: handleUserMessage, handleProductMessage           *)
(* ---------------------------------------------------------------------- *)

\* A data value that is null: reading a property of it is a TypeError.
NullData == [action |-> "<null>", payload |-> "<null>"]

\* One call made while an event is handled: the function, its id argument,
\* its data or payload argument, and the message (broadcast only).
Call(fn, id, data, msg) == [fn |-> fn, id |-> id, data |-> data, msg |-> msg]

\* A service call service.fn(id, payload).
ServiceCall(fn, id, payload) ==
    Call(fn, id, [action |-> Absent, payload |-> payload], NoMsg)

\* userService / productService method behind each action of a domain.
ServiceFn(domain, action) ==
    IF domain = "user"
    THEN (IF action = "update" THEN "userService.updateUser"
          ELSE "userService.createUser")
    ELSE (IF action = "update" THEN "productService.updateProduct"
          ELSE "productService.createProduct")

\* A handler that broadcasts before it calls the service.
handleMessageBroadcastFirst(domain, id, data) ==
    LET msg == ResultMsg(domain, id, data.payload)
        e == BroadcastEffect(msg, NoHook)
        svc == IF data.action \in {"update", "create"}
               THEN <<ServiceCall(ServiceFn(domain, data.action), id,
                                  data.payload)>>
               ELSE <<>>
    IN [calls |-> <<Call("broadcast", Absent, NoData, msg)>> \o svc,
        writes |-> e.writes, threw |-> e.threw, m |-> e.m]

\* A handler that returns without broadcasting when the action is neither
\* 'update' nor 'create'.
handleMessageKnownActionsOnly(domain, id, data) ==
    IF data = NullData
    THEN [calls |-> <<>>, writes |-> <<>>, threw |-> TRUE, m |-> connections]
    ELSE IF data.action \notin {"update", "create"}
    THEN [calls |-> <<>>, writes |-> <<>>, threw |-> FALSE, m |-> connections]
    ELSE LET msg == ResultMsg(domain, id, data.payload)
             e == BroadcastEffect(msg, NoHook)
         IN [calls |-> <<ServiceCall(ServiceFn(domain, data.action), id,
                                     data.payload),
                         Call("broadcast", Absent, NoData, msg)>>,
             writes |-> e.writes, threw |-> e.threw, m |-> e.m]

\* The body shared by handleUserMessage and handleProductMessage: the service
\* call chosen by data.action, then broadcast of the '<domain>_updated' event.
handleMessage(domain, id, data) ==
    IF data = NullData
    THEN [calls |-> <<>>, writes |-> <<>>, threw |-> TRUE, m |-> connections]
    ELSE LET svc == IF data.action = "update"
                    THEN <<ServiceCall(ServiceFn(domain, "update"), id,
                                       data.payload)>>
                    ELSE IF data.action = "create"
                    THEN <<ServiceCall(ServiceFn(domain, "create"), id,
                                       data.payload)>>
                    ELSE <<>>
             msg == ResultMsg(domain, id, data.payload)
             e == BroadcastEffect(msg, NoHook)
         IN [calls |-> svc \o <<Call("broadcast", Absent, NoData, msg)>>,
             writes |-> e.writes, threw |-> e.threw, m |-> e.m]

handleUserMessage(id, data) == handleMessage("user", id, data)

handleProductMessage(id, data) == handleMessage("product", id, data)

(* ---------------------------------------------------------------------- *)
(* The Elysia server: websocketApp.ws('/ws') open, message, close          *)
(* ---------------------------------------------------------------------- *)

\* A value that is not a string (a number, say).
NotAString == "<number>"

\* Inbound envelopes.
EnvTypes == {"user", "product", "chat", "", NotAString}
EnvIds == {"42", "", Absent}
EnvData ==
    {[action |-> a, payload |-> p] :
         a \in {"create", "update", "subscribe"}, p \in Payloads}
    \cup {NullData, NoData}
Envelopes == [type : EnvTypes, id : EnvIds, data : EnvData]

\* t.String(): any string, the empty one included.
IsString(v) == v \notin {Absent, Undefined, NotAString}

\* body: t.Object({type: t.String(), id: t.String(), data: t.Any()}): type
\* and id are strings, data is any value but the key has to be there.
BodyValid(env) ==
    IsString(env.type) /\ IsString(env.id) /\ env.data # NoData

\* A switch whose 'user' case lacks its break.
DispatchFallThrough(type, id, data) ==
    LET u == handleUserMessage(id, data)
        q == handleProductMessage(id, data)
    IN IF type = "user" /\ ~u.threw
       THEN [calls |-> <<Call("handleUserMessage", id, data, NoMsg)>>
                        \o u.calls
                        \o <<Call("handleProductMessage", id, data, NoMsg)>>
                        \o q.calls,
             writes |-> u.writes \o q.writes, threw |-> q.threw, m |-> q.m,
             logged |-> <<>>]
       ELSE IF type \in {"user", "product"}
       THEN [calls |-> <<Call("handleProductMessage", id, data, NoMsg)>>
                        \o q.calls,
             writes |-> q.writes, threw |-> q.threw, m |-> q.m,
             logged |-> <<>>]
       ELSE [calls |-> <<>>, writes |-> <<>>, threw |-> FALSE,
             m |-> connections,
             logged |-> <<"Unknown message type: " \o type>>]

\* A switch whose default case runs the user handler.
DispatchDefaultUser(type, id, data) ==
    LET h == IF type = "product" THEN handleProductMessage(id, data)
             ELSE handleUserMessage(id, data)
        fn == IF type = "product" THEN "handleProductMessage"
              ELSE "handleUserMessage"
    IN [calls |-> <<Call(fn, id, data, NoMsg)>> \o h.calls,
        writes |-> h.writes, threw |-> h.threw, m |-> h.m, logged |-> <<>>]

\* message(ws, {type, id, data}): switch (type).
Dispatch(type, id, data) ==
    IF type = "user"
    THEN LET h == handleUserMessage(id, data)
         IN [calls |-> <<Call("handleUserMessage", id, data, NoMsg)>>
                          \o h.calls,
             writes |-> h.writes, threw |-> h.threw, m |-> h.m,
             logged |-> <<>>]
    ELSE IF type = "product"
    THEN LET h == handleProductMessage(id, data)
         IN [calls |-> <<Call("handleProductMessage", id, data, NoMsg)>>
                          \o h.calls,
             writes |-> h.writes, threw |-> h.threw, m |-> h.m,
             logged |-> <<>>]
    ELSE [calls |-> <<>>, writes |-> <<>>, threw |-> FALSE,
          m |-> connections,
          logged |-> <<"Unknown message type: " \o type>>]

\* An open that greets every connection.
ElOpenGreetsAll(c) ==
    /\ state[c] = "CONNECTING"
    /\ state' = [state EXCEPT ![c] = "OPEN"]
    /\ op' = OpRec("open", c, "none", c, InfoMsg, NoEnv, NoHook)
    /\ before' = connections
    /\ writes' = <<Send("A", Stringify(InfoMsg)), Send("B", Stringify(InfoMsg)),
                   Send("C", Stringify(InfoMsg))>>
    /\ logged' = <<"Client connected">>
    /\ ret' = Undefined /\ threw' = FALSE /\ calls' = <<>>
    /\ UNCHANGED <<connections, failing, key>> /\ httpIdle

\* open(ws): log, send the info envelope to the opening connection.
ElOpen(c) ==
    /\ state[c] = "CONNECTING"
    /\ state' = [state EXCEPT ![c] = "OPEN"]
    /\ op' = OpRec("open", c, "none", c, InfoMsg, NoEnv, NoHook)
    /\ before' = connections
    /\ writes' = <<Send(c, Stringify(InfoMsg))>>
    /\ logged' = <<"Client connected">>
    /\ ret' = Undefined /\ threw' = FALSE /\ calls' = <<>>
    /\ UNCHANGED <<connections, failing, key>> /\ httpIdle

\* A frame from an open connection: the body schema, then message().  A frame
\* that fails the schema is answered with a validation error by the framework
\* and message() is not called.
ElMessage(c, env) ==
    /\ state[c] = "OPEN"
    /\ op' = OpRec("message", c, "none", c, NoMsg, env, NoHook)
    /\ before' = connections
    /\ ret' = Undefined
    /\ IF BodyValid(env)
       THEN LET d == Dispatch(env.type, env.id, env.data)
            IN /\ calls' = d.calls
               /\ writes' = d.writes
               /\ threw' = d.threw
               /\ logged' = d.logged
               /\ connections' = d.m
       ELSE /\ calls' = <<>>
            /\ writes' = <<Send(c, "validation error")>>
            /\ threw' = FALSE
            /\ logged' = <<>>
            /\ UNCHANGED connections
    /\ UNCHANGED <<failing, state, key>> /\ httpIdle

\* close(ws): log only.
ElClose(c) ==
    /\ state[c] = "OPEN"
    /\ state' = [state EXCEPT ![c] = "CLOSED"]
    /\ op' = OpRec("close", c, "none", c, NoMsg, NoEnv, NoHook)
    /\ before' = connections
    /\ logged' = <<"Client disconnected">>
    /\ writes' = <<>> /\ ret' = Undefined /\ threw' = FALSE /\ calls' = <<>>
    /\ UNCHANGED <<connections, failing, key>> /\ httpIdle

NextElysia ==
    \/ \E c \in Conn : ElOpen(c)
    \/ \E c \in Conn, env \in Envelopes : ElMessage(c, env)
    \/ \E c \in Conn : ElClose(c)

SpecElysia == Init /\ [][NextElysia]_vars

(* ---------------------------------------------------------------------- *)
(* The organisation routes: GET /, GET /:id, POST /create, POST /delete    *)
(* ---------------------------------------------------------------------- *)

\* The documents of the collection whose _id is id.
DocsById(id) == {d \in store : d._id = id}

\* OrganizationModel.find(): all documents; rejects on a storage fault.
find(fault) == [threw |-> fault, docs |-> IF fault THEN {} ELSE store]

\* A findById that answers with any document when the id has none.
findByIdAny(id, fault) ==
    [threw |-> fault \/ id = BadId,
     docs |-> IF fault \/ id = BadId THEN {}
              ELSE IF DocsById(id) # {} THEN DocsById(id)
              ELSE IF store # {} THEN {CHOOSE d \in store : TRUE}
              ELSE {}]

\* OrganizationModel.findById(id): the document or null (no document);
\* rejects on a storage fault and on an id that cannot be cast to an ObjectId.
findById(id, fault) ==
    [threw |-> fault \/ id = BadId,
     docs |-> IF fault \/ id = BadId THEN {} ELSE DocsById(id)]

\* OrganizationModel.deleteOne({_id: id}): removes the document if there is
\* one and answers {acknowledged, deletedCount} either way; rejects on a
\* storage fault and on an id that cannot be cast.
deleteOne(id, fault) ==
    IF fault \/ id = BadId
    THEN [threw |-> TRUE, result |-> <<>>, store |-> store]
    ELSE [threw |-> FALSE,
          result |-> <<[acknowledged |-> TRUE,
                        deletedCount |-> Cardinality(DocsById(id))]>>,
          store |-> store \ DocsById(id)]

\* OrganizationModel.create(org): stores org under a new _id and answers the
\* stored document; rejects on a storage fault.
create(id, name, fault) ==
    IF fault
    THEN [threw |-> TRUE, docs |-> {}, store |-> store]
    ELSE [threw |-> FALSE, docs |-> {Doc(id, name)},
          store |-> store \cup {Doc(id, name)}]

\* getOrganization: no try/catch.
getOrganization(fault) == find(fault)

\* getOrganizationById: the document, or null when findById answers null or
\* throws.
getOrganizationById(id, fault) ==
    LET f == findById(id, fault)
    IN [threw |-> FALSE, docs |-> IF f.threw THEN {} ELSE f.docs]

\* deleteOrganizationById: deleteOne's result, or null when it throws.
deleteOrganizationById(id, fault) ==
    LET d == deleteOne(id, fault)
    IN [threw |-> FALSE, result |-> d.result, store |-> d.store]

\* createOrganization: no try/catch.
createOrganization(id, name, fault) == create(id, name, fault)

\* The framework's reply to an exception that leaves a route handler, and to
\* a body that fails the route's schema.
InternalError == Response(500, Body("error", "INTERNAL_SERVER_ERROR", {}, <<>>))
ValidationError == Response(422, Body("error", "VALIDATION", {}, <<>>))

\* What every request leaves alone or resets on the WebSocket side.
wsIdle ==
    /\ before' = connections
    /\ writes' = <<>> /\ ret' = Undefined /\ logged' = <<>>
    /\ UNCHANGED <<connections, failing, state, key>>

\* A request that calls mongoose.connect again.
dbReconnects == connects' = connects + 1 /\ UNCHANGED <<db, listening>>

\* What every request leaves alone on the database connection: no route and
\* no service calls connectToDatabase.
dbIdle == UNCHANGED <<db, connects, listening>>

cronIdle == UNCHANGED cron

HttpOp(id) == OpRec("request", "none", id, "none", NoMsg, NoEnv, NoHook)

\* A route that also broadcasts what it did.
RouteCallsAndBroadcast(fn, id) ==
    <<Call(fn, id, NoData, NoMsg), Call("broadcast", Absent, NoData, InfoMsg)>>

\* The calls a route makes: its one service method.
RouteCalls(fn, id) == <<Call(fn, id, NoData, NoMsg)>>

\* Whether a storage call of a request can fail: it can at any time, and it
\* does when there is no connection (the call is buffered and times out).
Faults == IF db = "connected" THEN BOOLEAN ELSE {TRUE}

\* GET /organizations
HttpList(fault) ==
    LET r == getOrganization(fault)
    IN /\ listening
       /\ req' = [r |-> Request("GET /", Absent, Absent, fault),
                  store |-> store]
       /\ resp' = IF r.threw THEN InternalError
                  ELSE Response(200, Body("list", Absent, r.docs, <<>>))
       /\ threw' = r.threw
       /\ calls' = RouteCalls("getOrganization", Absent)
       /\ op' = HttpOp(Absent)
       /\ UNCHANGED <<store, issued>> /\ wsIdle /\ dbIdle /\ cronIdle

\* GET /organizations/:id
HttpGetById(id, fault) ==
    LET user == getOrganizationById(id, fault)
    IN /\ listening
       /\ req' = [r |-> Request("GET /:id", id, Absent, fault),
                  store |-> store]
       /\ resp' = IF user.docs = {}
                  THEN Response(400, Body("object", "Id not found", {}, <<>>))
                  ELSE Response(200, Body("document", Absent, user.docs, <<>>))
       /\ threw' = user.threw
       /\ calls' = RouteCalls("getOrganizationById", id)
       /\ op' = HttpOp(id)
       /\ UNCHANGED <<store, issued>> /\ wsIdle /\ dbIdle /\ cronIdle

\* POST /organizations/create, body "newOrg"
HttpCreate(id, name, fault) ==
    /\ listening
    /\ id \notin issued
    /\ req' = [r |-> Request("POST /create", Absent, name, fault),
               store |-> store]
    /\ op' = HttpOp(Absent)
    /\ wsIdle /\ dbIdle /\ cronIdle
    /\ IF name = NotAString
       THEN /\ resp' = ValidationError
            /\ threw' = FALSE /\ calls' = <<>>
            /\ UNCHANGED <<store, issued>>
       ELSE LET r == createOrganization(id, name, fault)
            IN /\ resp' = IF r.threw THEN InternalError
                          ELSE Response(200,
                                        Body("document", Absent, r.docs, <<>>))
               /\ threw' = r.threw
               /\ calls' = RouteCalls("createOrganization", Absent)
               /\ store' = r.store
               /\ issued' = IF r.threw THEN issued ELSE issued \cup {id}

\* POST /organizations/delete, body "byId"
HttpDelete(id, fault) ==
    /\ listening
    /\ req' = [r |-> Request("POST /delete", id, Absent, fault),
               store |-> store]
    /\ op' = HttpOp(id)
    /\ wsIdle /\ dbIdle /\ cronIdle
    /\ UNCHANGED issued
    /\ IF id = NotAString
       THEN /\ resp' = ValidationError
            /\ threw' = FALSE /\ calls' = <<>>
            /\ UNCHANGED store
       ELSE LET result == deleteOrganizationById(id, fault)
            IN /\ resp' = IF result.result = <<>>
                          THEN Response(400,
                                        Body("text", "Id not found", {}, <<>>))
                          ELSE Response(200,
                                        Body("object", "Record Deleted", {},
                                             result.result))
               /\ threw' = result.threw
               /\ calls' = RouteCalls("deleteOrganizationById", id)
               /\ store' = result.store

(* ---------------------------------------------------------------------- *)
(* Startup: connectToDatabase() (not awaited), then app.listen(3000)       *)
(* ---------------------------------------------------------------------- *)

\* What startup and the connection's outcome leave alone.
routesIdle ==
    /\ before' = connections
    /\ writes' = <<>> /\ ret' = Undefined /\ calls' = <<>>
    /\ UNCHANGED <<connections, failing, state, key, store, issued, req, resp>>

\* A connectToDatabase without its try/catch.
connectToDatabaseUncaught(ok) ==
    IF ok
    THEN [db |-> "connected", threw |-> FALSE,
          logged |-> <<"====== MongoDB connected ======">>]
    ELSE [db |-> "failed", threw |-> TRUE, logged |-> <<>>]

\* connectToDatabase after its await: mongoose.connect resolved (ok) or
\* rejected; the rejection is caught and logged.
connectToDatabase(ok) ==
    IF ok
    THEN [db |-> "connected", threw |-> FALSE,
          logged |-> <<"====== MongoDB connected ======">>]
    ELSE [db |-> "failed", threw |-> FALSE,
          logged |-> <<"MongoDB connection error:">>]

\* The module body of the entry file, one synchronous run: connectToDatabase()
\* runs up to its await (mongoose.connect is called), the app is built and
\* app.listen(3000) is called.
Startup ==
    /\ ~listening
    /\ db = "none"
    /\ connects' = connects + 1
    /\ db' = "connecting"
    /\ listening' = TRUE
    /\ logged' = <<"server is started on localhost:3000",
                   "server api docs available on localhost:3000/docs">>
    /\ threw' = FALSE
    /\ op' = OpRec("startup", "none", "none", "none", NoMsg, NoEnv, NoHook)
    /\ routesIdle /\ cronIdle

\* mongoose.connect settles: connectToDatabase resumes after its await.
ConnectSettles(ok) ==
    LET r == connectToDatabase(ok)
    IN /\ db = "connecting"
       /\ db' = r.db
       /\ logged' = r.logged
       /\ threw' = r.threw
       /\ op' = OpRec("connect-settled", "none", "none", "none", NoMsg, NoEnv,
                      NoHook)
       /\ UNCHANGED <<connects, listening>>
       /\ routesIdle /\ cronIdle

NextHttp ==
    \/ Startup
    \/ \E ok \in BOOLEAN : ConnectSettles(ok)
    \/ \E fault \in Faults : HttpList(fault)
    \/ \E id \in ObjIds \cup {BadId}, fault \in Faults : HttpGetById(id, fault)
    \/ \E id \in ObjIds, name \in Names \cup {NotAString}, fault \in Faults :
           HttpCreate(id, name, fault)
    \/ \E id \in ObjIds \cup {BadId, NotAString}, fault \in Faults :
           HttpDelete(id, fault)

SpecHttp == Init /\ [][NextHttp]_vars

(* ---------------------------------------------------------------------- *)
(* The heartbeat cron job: run()                                           *)
(* ---------------------------------------------------------------------- *)

\* The three steps of a run, in source order: the service method each awaits,
\* the line it logs per item and the line it logs on an error.
CronSteps ==
    <<[name |-> "users", fn |-> "userService.checkForUpdates",
       item |-> "User update: ",
       error |-> "Error checking for user updates:"],
      [name |-> "products", fn |-> "productService.checkForUpdates",
       item |-> "Product update: ",
       error |-> "Error checking for product updates:"],
      [name |-> "notifications", fn |-> "userService.getPendingNotifications",
       item |-> "Sending notification: ",
       error |-> "Error sending notifications:"]>>

\* What an awaited service call can do: reject, resolve with something that
\* is no array (forEach is then a TypeError), or resolve with a list of items.
CronOutcomes == {"rejects", "not-a-list", "empty", "one"}
CronItems(outcome) == IF outcome = "one" THEN <<"{\"id\":\"1\"}">> ELSE <<>>

\* A step without its try/catch: the error leaves run().
CronStepEffectUncaught(step, outcome) ==
    IF outcome \in {"rejects", "not-a-list"}
    THEN [ok |-> FALSE, threw |-> TRUE, logged |-> <<>>]
    ELSE [ok |-> TRUE, threw |-> FALSE,
          logged |-> [i \in 1..Len(CronItems(outcome)) |->
                          step.item \o CronItems(outcome)[i]]]

\* One try/catch block of run(): await the service, log each item; on any
\* error log the step's error line and go on.
CronStepEffect(step, outcome) ==
    IF outcome \in {"rejects", "not-a-list"}
    THEN [ok |-> FALSE, threw |-> FALSE, logged |-> <<step.error>>]
    ELSE [ok |-> TRUE, threw |-> FALSE,
          logged |-> [i \in 1..Len(CronItems(outcome)) |->
                          step.item \o CronItems(outcome)[i]]]

\* What the job leaves alone: the registry, the sockets, the routes' state
\* and the database connection.
jobIdle ==
    /\ before' = connections
    /\ writes' = <<>> /\ ret' = Undefined
    /\ UNCHANGED <<connections, failing, state, key, store, issued, req, resp,
                   db, connects, listening>>

\* The scheduler starts a run: console.log('Heartbeat').
CronRun ==
    /\ ~cron.running
    /\ cron' = [running |-> TRUE, steps |-> <<>>, failed |-> FALSE]
    /\ logged' = <<"Heartbeat">>
    /\ threw' = FALSE /\ calls' = <<>>
    /\ op' = OpRec("cron-run", "none", "none", "none", NoMsg, NoEnv, NoHook)
    /\ jobIdle

\* The run goes on to its next step; an error that left the step would end
\* the run.
CronStep(outcome) ==
    /\ cron.running
    /\ LET step == CronSteps[Len(cron.steps) + 1]
           e == CronStepEffect(step, outcome)
           steps == Append(cron.steps, [name |-> step.name, ok |-> e.ok])
       IN /\ cron' = [running |-> ~e.threw /\ Len(steps) < Len(CronSteps),
                      steps |-> steps, failed |-> e.threw]
          /\ logged' = e.logged
          /\ threw' = e.threw
          /\ calls' = <<Call(step.fn, Absent, NoData, NoMsg)>>
          /\ op' = OpRec("cron-step", "none", step.name, "none", NoMsg, NoEnv,
                         NoHook)
    /\ jobIdle

NextCron ==
    \/ CronRun
    \/ \E outcome \in CronOutcomes : CronStep(outcome)

\* The application: startup, the organisation routes and the heartbeat job.
NextApp == NextHttp \/ NextCron

SpecApp == Init /\ [][NextApp]_vars

(* ---------------------------------------------------------------------- *)
(* Properties                                                              *)
(* ---------------------------------------------------------------------- *)

\* Number of send calls of the last call or event made on channel c.
Visits(c) == Cardinality({i \in 1..Len(writes) : writes[i].ws = c})

\* Number of those that returned and carried exactly text.
Delivered(c, text) ==
    Cardinality({i \in 1..Len(writes) :
                     writes[i].ws = c /\ writes[i].ok /\ writes[i].data = text})

\* Number of ids of Map m that map to channel c.
EntriesOf(m, c) == Cardinality({i \in 1..Len(m) : m[i].ws = c})

\* The entries of m whose id is not id, in order.
Without(m, id) ==
    LET Keep(e) == e.id # id IN SelectSeq(m, Keep)

\* The entries of m whose channel is not c, in order.
WithoutChannel(m, c) ==
    LET Keep(e) == e.ws # c IN SelectSeq(m, Keep)

\* No id occurs twice in m.
UniqueIds(m) == \A i, j \in 1..Len(m) : m[i].id = m[j].id => i = j

IsHandlerCall(c) == c.fn \in {"handleUserMessage", "handleProductMessage"}

\* A broadcast during which no channel touched the registry.
PlainBroadcast == op.name = "broadcast" /\ op.hook = NoHook

\* C1: broadcast(m) delivers m to every id registered when it is called, once
\* per registered id (channels whose own socket fails are left aside here).
C1_BroadcastReachesEveryRegistrant ==
    PlainBroadcast =>
        \A c \in MapValues(before) \ failing :
            Delivered(c, Stringify(op.msg)) = EntriesOf(before, c)

\* C2: a send that throws for one recipient neither stops the delivery to the
\* other registered channels nor reaches the caller of broadcast.
C2_RecipientFailureIsIsolated ==
    PlainBroadcast =>
        /\ ~threw
        /\ \A c \in MapValues(before) \ failing :
               Delivered(c, Stringify(op.msg)) >= 1

\* C3: the result envelope of a handled 'user' or 'product' envelope reaches
\* every open connection, the sender included; every open connection is
\* registered.
C3_ResultReachesEveryOpenConnection ==
    (/\ op.name = "message"
     /\ BodyValid(op.env)
     /\ op.env.type \in {"user", "product"}
     /\ op.env.data # NullData)
    => \A c \in Conn :
           state[c] = "OPEN" =>
               /\ c \in MapValues(before)
               /\ Delivered(c, Stringify(ResultMsg(op.env.type, op.env.id,
                                                   op.env.data.payload))) >= 1

\* C4: a connection is registered only from OPEN on; its close removes its own
\* registry entry and nothing else, a repeated close changes nothing, and a
\* closed connection is neither registered nor written to.
C4_CloseDeregistersOwnEntryOnce ==
    /\ \A c \in Conn :
           state[c] \in {"CONNECTING", "CLOSED"} =>
               c \notin MapValues(connections) /\ Visits(c) = 0
    /\ op.name = "close" => connections = WithoutChannel(before, op.conn)
    /\ op.name = "close-again" => connections = before

\* C5: a valid envelope invokes exactly the handler of its type, with (id,
\* data), and an envelope of any other type invokes nothing.
C5_DispatchInvokesHandlerOfType ==
    (op.name = "message" /\ BodyValid(op.env)) =>
        LET hs == SelectSeq(calls, IsHandlerCall)
        IN IF op.env.type = "user"
           THEN hs = <<Call("handleUserMessage", op.env.id, op.env.data,
                            NoMsg)>>
           ELSE IF op.env.type = "product"
           THEN hs = <<Call("handleProductMessage", op.env.id, op.env.data,
                            NoMsg)>>
           ELSE calls = <<>>

C5_Witness ==
    /\ op.name = "message"
    /\ op.env.type = "product"
    /\ op.env.id = "42"
    /\ Len(calls) > 1
    /\ calls[1].fn = "handleProductMessage"

\* C6: for {type:T, id:I, data:{action:create|update, payload:P}} the handler
\* calls the create or update operation of T's service with (I, P) and then
\* broadcasts {type:T, id:I, data:{action:'<T>_updated', payload:P}}.
C6_ServiceCallThenBroadcast ==
    (/\ op.name = "message"
     /\ BodyValid(op.env)
     /\ op.env.type \in {"user", "product"}
     /\ op.env.data.action \in {"create", "update"})
    => LET T == op.env.type
           I == op.env.id
           P == op.env.data.payload
           fn == CASE T = "user" /\ op.env.data.action = "create"
                        -> "userService.createUser"
                   [] T = "user" /\ op.env.data.action = "update"
                        -> "userService.updateUser"
                   [] T = "product" /\ op.env.data.action = "create"
                        -> "productService.createProduct"
                   [] OTHER -> "productService.updateProduct"
       IN /\ Len(calls) = 3
          /\ IsHandlerCall(calls[1])
          /\ calls[2].fn = fn /\ calls[2].id = I /\ calls[2].data.payload = P
          /\ calls[3].fn = "broadcast"
          /\ calls[3].msg = [type |-> T, id |-> I, message |-> Absent,
                             data |-> [action |-> T \o "_updated",
                                       payload |-> P]]

C6_Witness ==
    /\ op.name = "message"
    /\ op.env = [type |-> "user", id |-> "42",
                 data |-> [action |-> "create", payload |-> PayloadAnn]]
    /\ Len(calls) = 3
    /\ calls[3].msg = ResultMsg("user", "42", PayloadAnn)

\* C7 as stated: sendTo(id, m) on an unregistered id returns a not-found
\* indication, throws nothing and writes nothing; on a registered id it
\* writes m to that id's channel only.
C7_SendToUnknownReturnsNotFound ==
    op.name = "sendToConnection" =>
        IF ~MapHas(before, op.id)
        THEN ret # Undefined /\ ~threw /\ writes = <<>>
        ELSE /\ Len(writes) = 1
             /\ writes[1].ws = MapGet(before, op.id)
             /\ writes[1].data = Stringify(op.msg)

\* C7 amended: on an unregistered id sendTo logs 'No connection found for id:
\* <id>' and returns undefined as it does on success, throws nothing and
\* writes nothing; on a registered id it calls send once, with the serialized
\* m, on that id's channel and logs nothing.
C7_SendToUnknownLogsNotFound ==
    op.name = "sendToConnection" =>
        /\ ret = Undefined
        /\ connections = before
        /\ IF ~MapHas(before, op.id)
           THEN /\ logged = <<"No connection found for id: " \o op.id>>
                /\ ~threw
                /\ writes = <<>>
           ELSE /\ logged = <<>>
                /\ Len(writes) = 1
                /\ writes[1].ws = MapGet(before, op.id)
                /\ writes[1].data = Stringify(op.msg)

C7_Witness ==
    /\ op.name = "sendToConnection"
    /\ ~MapHas(before, op.id)
    /\ Len(before) > 0
    /\ logged # <<>>

\* C8: register is last-write-wins: after register(id, c) lookup(id) is c,
\* id has one entry and the other ids keep theirs; sendTo(id) writes to the
\* channel now registered under id, and broadcast writes to exactly the
\* registered channels, entry by entry.
C8_RegisterLastWriteWins ==
    /\ UniqueIds(connections)
    /\ op.name = "addConnection" =>
           /\ MapGet(connections, op.id) = op.ws
           /\ \A id \in Ids \ {op.id} :
                  MapGet(connections, id) = MapGet(before, id)
    /\ (op.name = "sendToConnection" /\ MapHas(before, op.id)) =>
           {writes[i].ws : i \in 1..Len(writes)} = {MapGet(before, op.id)}
    /\ PlainBroadcast =>
           /\ Len(writes) <= Len(before)
           /\ \A i \in 1..Len(writes) : writes[i].ws = before[i].ws
           /\ ~threw => Len(writes) = Len(before)

C8_Witness ==
    /\ op.name = "addConnection"
    /\ MapHas(before, op.id)
    /\ MapGet(before, op.id) # op.ws
    /\ MapGet(connections, op.id) = op.ws
    /\ Len(connections) = 2

\* C9: deregister(id) on an id that is not registered throws nothing and
\* leaves the registry as it was; on a registered id it removes that id's
\* entry and no other.
C9_DeregisterIdempotent ==
    op.name = "removeConnection" =>
        /\ ~threw
        /\ ~MapHas(connections, op.id)
        /\ IF MapHas(before, op.id)
           THEN connections = Without(before, op.id)
           ELSE connections = before

C9_Witness ==
    /\ op.name = "removeConnection"
    /\ ~MapHas(before, op.id)
    /\ Len(before) > 0
    /\ connections = before

\* C10: broadcast visits a snapshot of the registrants taken at its start:
\* whatever is registered or deregistered meanwhile, no channel is visited
\* more often than it was registered at the start.
C10_BroadcastIteratesSnapshot ==
    op.name = "broadcast" =>
        \A c \in Conn : Visits(c) <= EntriesOf(before, c)

\* The channels registered under id in Map m.
ChannelsOf(m, id) == {m[i].ws : i \in {j \in 1..Len(m) : m[j].id = id}}

\* C11: connect, message and close events of different connections take
\* effect one at a time: each register and deregister acts on the registry
\* the previous event left, no other id's mapping is lost or altered, and a
\* broadcast leaves the registry as it found it.
C11_RegistryEventsAreSequential ==
    /\ op.name = "connection" =>
           \A id \in Ids :
               ChannelsOf(connections, id) =
                   IF id = op.id THEN {op.conn} ELSE ChannelsOf(before, id)
    /\ op.name \in {"close", "close-again"} =>
           \A id \in Ids :
               ChannelsOf(connections, id) =
                   IF id = op.id THEN {} ELSE ChannelsOf(before, id)
    /\ op.name = "message" => connections = before

C11_Witness ==
    /\ op.name = "close"
    /\ Len(before) = 2
    /\ Len(connections) = 1
    /\ \E c \in Conn : c # op.conn /\ state[c] = "CLOSED"
    /\ \E c \in Conn : c # op.conn /\ state[c] = "OPEN"
                       /\ c \in MapValues(connections)

\* The wire schema {type: non-empty string, id: non-empty string, data: any}.
WireValid(env) ==
    /\ env.type \notin {Absent, Undefined, NotAString, ""}
    /\ env.id \notin {Absent, Undefined, NotAString, ""}
    /\ env.data # NoData

\* C12: an inbound message that violates the wire schema invokes no handler,
\* has nothing broadcast and leaves the connection open.
C12_MalformedEnvelopeIsRejected ==
    (op.name = "message" /\ ~WireValid(op.env)) =>
        /\ calls = <<>>
        /\ state[op.conn] = "OPEN"

\* C13: an envelope whose type has no handler is dropped: no service call,
\* no broadcast, nothing sent, the registry unchanged, the sender still open.
C13_UnknownTypeIsDropped ==
    (/\ op.name = "message"
     /\ BodyValid(op.env)
     /\ op.env.type \notin {"user", "product"})
    => /\ calls = <<>>
       /\ writes = <<>>
       /\ connections = before
       /\ ~threw
       /\ logged = <<"Unknown message type: " \o op.env.type>>
       /\ state[op.conn] = "OPEN"

C13_Witness ==
    /\ op.name = "message"
    /\ op.env.type = "chat"
    /\ op.env.id = "42"
    /\ op.env.data.action = "create"
    /\ logged = <<"Unknown message type: chat">>

\* C14: no failure inside a message handler leaves the handler as an
\* exception.
C14_HandlerFailureDoesNotEscape ==
    op.name = "message" => ~threw

\* C17: every recipient of one broadcast(m) is written the same text, the
\* serialization of m.
C17_RecipientsGetIdenticalEnvelope ==
    op.name = "broadcast" =>
        /\ \A i, j \in 1..Len(writes) : writes[i].data = writes[j].data
        /\ \A i \in 1..Len(writes) :
               /\ writes[i].data = Stringify(op.msg)
               /\ op.msg = InfoMsg =>
                      writes[i].data =
                          "{\"type\":\"info\",\"message\":\"Connection established\"}"
               /\ op.msg = ResultMsg("user", "42", PayloadAnn) =>
                      writes[i].data =
                          "{\"type\":\"user\",\"id\":\"42\",\"data\":{\"action\":\"user_updated\",\"payload\":"
                          \o PayloadAnn \o "}}"

C17_Witness ==
    /\ op.name = "broadcast"
    /\ Len(writes) = 2
    /\ writes[1].ws # writes[2].ws
    /\ writes[1].ok /\ writes[2].ok
    /\ writes[1].data = writes[2].data

\* C18: a registered id has exactly one entry, and getConnection(id) returns
\* the channel of that entry, or undefined when id has none.
C18_IdUniqueAndLookupExact ==
    /\ UniqueIds(connections)
    /\ \A id \in Ids : Cardinality(ChannelsOf(connections, id)) <= 1
    /\ op.name = "getConnection" =>
           IF ChannelsOf(before, op.id) = {}
           THEN ret = Undefined
           ELSE ChannelsOf(before, op.id) = {ret}

C18_Witness ==
    /\ op.name = "getConnection"
    /\ Len(before) = 2
    /\ before[2].id = op.id
    /\ ret = before[2].ws
    /\ ret # before[1].ws

\* C19: in the ws-based server the channels held by the registry are the
\* connections now open.
C19_RegistryHoldsTheOpenConnections ==
    MapValues(connections) = {c \in Conn : state[c] = "OPEN"}

\* The service calls among the calls of the last event.
ServiceCalls ==
    {i \in 1..Len(calls) :
         calls[i].fn \in {ServiceFn(d, a) : d \in {"user", "product"},
                                            a \in {"update", "create"}}}

\* C20: a handler calls a domain service only for the actions 'update' and
\* 'create'; for any action it ends by calling broadcast with the
\* '<type>_updated' envelope.
C20_ServiceOnlyForUpdateOrCreate ==
    (/\ op.name = "message"
     /\ BodyValid(op.env)
     /\ op.env.type \in {"user", "product"}
     /\ op.env.data # NullData)
    => /\ ServiceCalls # {} <=> op.env.data.action \in {"update", "create"}
       /\ Cardinality(ServiceCalls) <= 1
       /\ Len(calls) >= 2
       /\ calls[Len(calls)] =
              Call("broadcast", Absent, NoData,
                   ResultMsg(op.env.type, op.env.id, op.env.data.payload))

C20_Witness ==
    /\ op.name = "message"
    /\ op.env.type = "product"
    /\ op.env.data.action = "subscribe"
    /\ calls = <<Call("handleProductMessage", op.env.id, op.env.data, NoMsg),
                 Call("broadcast", Absent, NoData,
                      ResultMsg("product", op.env.id, op.env.data.payload))>>

\* The documents the last request found stored under the id it names.
FoundBefore == {d \in req.store : d._id = req.r.id}

\* C15: POST /organizations/delete with an id that has no document answers
\* 400 with the body {message: "Id not found"} and no exception leaves the
\* handler.
C15_DeleteOfUnknownIdIsNotFound ==
    (/\ req.r.route = "POST /delete"
     /\ req.r.id # NotAString
     /\ ~req.r.fault
     /\ FoundBefore = {})
    => /\ resp.status = 400
       /\ resp.body = Body("object", "Id not found", {}, <<>>)
       /\ ~threw

\* C16: GET /organizations/:id answers 400 with the body
\* {message: "Id not found"} when the id has no document or the lookup
\* throws, and the stored document otherwise.
C16_GetByIdNotFoundOrRecord ==
    req.r.route = "GET /:id" =>
        /\ ~threw
        /\ IF FoundBefore = {} \/ req.r.id = BadId \/ req.r.fault
           THEN resp = Response(400, Body("object", "Id not found", {}, <<>>))
           ELSE /\ resp.status = 200
                /\ resp.body.kind = "document"
                /\ resp.body.docs = FoundBefore
                /\ Cardinality(FoundBefore) = 1
        /\ store = req.store

C16_Witness ==
    /\ req.r.route = "GET /:id"
    /\ req.r.id \in ObjIds
    /\ ~req.r.fault
    /\ FoundBefore = {}
    /\ req.store # {}
    /\ resp.status = 400

\* The functions of the websocket manager and the message handlers.
RegistryFunctions ==
    {"addConnection", "removeConnection", "getConnection", "sendToConnection",
     "broadcast", "handleUserMessage", "handleProductMessage"}

\* The domain services behind the routes and the job.
DomainServices ==
    {"getOrganization", "getOrganizationById", "createOrganization",
     "deleteOrganizationById"}
    \cup {CronSteps[i].fn : i \in 1..Len(CronSteps)}

\* C25: a request to an organisation route and a run of the heartbeat job
\* call domain services only: the registry is as it was, nothing is written
\* to any socket, and no manager function or message handler is called.
C25_RoutesAndJobLeaveTheRegistryAlone ==
    op.name \in {"request", "cron-run", "cron-step"} =>
        /\ connections = before
        /\ writes = <<>>
        /\ \A i \in 1..Len(calls) :
               /\ calls[i].fn \in DomainServices
               /\ calls[i].fn \notin RegistryFunctions
        /\ \A c \in Conn : state[c] = "CONNECTING" /\ key[c] = "none"

C25_Witness ==
    /\ op.name = "cron-step"
    /\ op.id = "notifications"
    /\ calls = <<Call("userService.getPendingNotifications", Absent, NoData,
                      NoMsg)>>
    /\ req.r.route = "POST /delete"
    /\ resp.status = 200

\* C26: a run of the heartbeat job does its steps in the order users,
\* products, notifications; a step that fails is caught, the later steps run,
\* and the run ends only after the third step, never by an error.
C26_HeartbeatRunsAllStepsInOrder ==
    /\ ~cron.failed
    /\ op.name \in {"cron-run", "cron-step"} => ~threw
    /\ Len(cron.steps) <= 3
    /\ \A i \in 1..Len(cron.steps) :
           cron.steps[i].name = <<"users", "products", "notifications">>[i]
    /\ cron.running => Len(cron.steps) < 3
    /\ (~cron.running /\ cron # CronNotRun) => Len(cron.steps) = 3
    /\ (op.name = "cron-step" /\ ~cron.steps[Len(cron.steps)].ok) =>
           logged = <<CronSteps[Len(cron.steps)].error>>

C26_Witness ==
    /\ op.name = "cron-step"
    /\ ~cron.running
    /\ Len(cron.steps) = 3
    /\ ~cron.steps[1].ok
    /\ ~cron.steps[2].ok
    /\ cron.steps[3].ok

\* C27: mongoose.connect is called once, by the startup, and by nothing
\* after it: whatever requests are served, the count stays at one.
C27_DatabaseConnectsOnce ==
    /\ connects <= 1
    /\ listening => connects = 1
    /\ op.name \in {"request", "connect-settled"} => connects = 1
    /\ db = "none" <=> connects = 0

C27_Witness ==
    /\ op.name = "request"
    /\ req.r.route = "POST /delete"
    /\ req.store # {}
    /\ store = {}
    /\ connects = 1

\* C28: a connection failure at startup is caught in connectToDatabase and
\* logged; the server is listening before the connection settles and stays
\* so after it failed.
C28_ConnectFailureIsCaught ==
    /\ op.name = "connect-settled" => ~threw
    /\ (op.name = "connect-settled" /\ db = "failed") =>
           logged = <<"MongoDB connection error:">>
    /\ db \in {"connecting", "connected", "failed"} => listening
    /\ op.name = "request" => listening

C28_Witness ==
    /\ op.name = "connect-settled"
    /\ db = "failed"
    /\ listening
    /\ req.r.route = "GET /"
    /\ resp = InternalError

\* The text of the info envelope.
InfoText == "{\"type\":\"info\",\"message\":\"Connection established\"}"

\* C21: when a connection opens, one info envelope is sent, to that
\* connection and to no other, and nothing is written to a connection before
\* its own open.
C21_InfoEnvelopeOnOpenOnly ==
    /\ op.name = "open" =>
           /\ writes = <<Write(op.conn, InfoText, TRUE)>>
           /\ Stringify(InfoMsg) = InfoText
           /\ state[op.conn] = "OPEN"
    /\ \A i \in 1..Len(writes) :
           /\ state[writes[i].ws] # "CONNECTING"
           /\ writes[i].data = InfoText => op.name = "open"

C21_Witness ==
    /\ op.name = "open"
    /\ Len(writes) = 1
    /\ writes[1].ws = op.conn
    /\ \E c \in Conn : c # op.conn /\ state[c] = "OPEN"
    /\ \E c \in Conn : state[c] = "CONNECTING"

\* C22: in the ws-based server a received message is written once, as the
\* serialization of its parsed value, to every registered connection and to
\* its sender, and only to connections that are open.
C22_MessageReachesAllRegisteredAndSender ==
    op.name = "message" =>
        /\ \A c \in MapValues(before) \cup {op.conn} :
               Visits(c) = 1 /\ Delivered(c, Stringify(op.msg)) = 1
        /\ \A i \in 1..Len(writes) : state[writes[i].ws] = "OPEN"

\* C23: addConnection(id, c2) over id -> c1 writes nothing to c1, raises
\* nothing and drops c1 from id; afterwards a channel is written to only
\* while the registry holds it: by broadcast if it is registered, by
\* sendToConnection(id) if it is registered under id.
C23_OverwriteDropsPreviousSilently ==
    /\ op.name = "addConnection" =>
           /\ writes = <<>>
           /\ ~threw
           /\ logged = <<>>
           /\ ChannelsOf(connections, op.id) = {op.ws}
    /\ op.name = "sendToConnection" =>
           \A i \in 1..Len(writes) : writes[i].ws \in ChannelsOf(before, op.id)
    /\ op.name = "broadcast" =>
           \A i \in 1..Len(writes) : writes[i].ws \in MapValues(before)

C23_Witness ==
    /\ op.name = "addConnection"
    /\ \E c1 \in Conn :
           /\ c1 # op.ws
           /\ ChannelsOf(before, op.id) = {c1}
           /\ c1 \notin MapValues(connections)
    /\ Len(connections) = 2

\* C24: getConnection, sendToConnection and broadcast leave the registry as
\* they found it, whether the id exists or not and whether a send throws or
\* not; the registry differs from what a call found only after
\* addConnection or removeConnection (or a broadcast during which a channel
\* called them from its send).
C24_ReadsAndSendsLeaveRegistry ==
    /\ (op.name \in {"getConnection", "sendToConnection"} \/ PlainBroadcast)
           => connections = before
    /\ connections # before =>
           \/ op.name \in {"addConnection", "removeConnection"}
           \/ op.name = "broadcast" /\ op.hook # NoHook

C24_Witness ==
    /\ PlainBroadcast
    /\ threw
    /\ Len(before) = 2
    /\ connections = before
    /\ \E i \in 1..Len(writes) : ~writes[i].ok

\* C29: create, get and delete agree over any sequence of requests served
\* without a storage fault: a created document is stored, GET returns the
\* stored document of an id, GET of an id whose document was deleted answers
\* 400, and so does a second delete of it, which does not report
\* 'Record Deleted'.
C29_CreateGetDeleteAgree ==
    /\ (req.r.route = "POST /create" /\ resp.status = 200) =>
           resp.body.docs # {} /\ resp.body.docs \subseteq store
    /\ (req.r.route = "GET /:id" /\ ~req.r.fault /\ FoundBefore # {}) =>
           resp = Response(200, Body("document", Absent, FoundBefore, <<>>))
    /\ (req.r.route = "GET /:id" /\ req.r.id \in issued /\ FoundBefore = {}) =>
           resp.status = 400
    /\ (/\ req.r.route = "POST /delete"
        /\ ~req.r.fault
        /\ req.r.id \in issued
        /\ FoundBefore = {})
       => resp.status = 400 /\ resp.body.message # "Record Deleted"

====
